---- MODULE Spec2Model ----
(***************************************************************************)
(* Variant conversions of godot-core: builtin/variant/impls.rs.            *)
(*                                                                         *)
(* The file implements GodotFfiVariant (ffi_to_variant, ffi_from_variant)  *)
(* and GodotType (to_ffi, property_info, ...) for the builtin types, by    *)
(* the macro impl_ffi_variant!, and by hand for () and for Variant.        *)
(*                                                                         *)
(* A typed value is a record [ty, data]; a Variant is a record [tag, data].*)
(* data is a tuple of scalars written as strings, "NaN" among the floats.  *)
(***************************************************************************)
EXTENDS Naturals, Sequences, FiniteSets, TLC

VARIABLES api, op, val, variant, source, target, res, given, calls, out,
          store, ffi, touched, name, info

vars == <<api, op, val, variant, source, target, res, given, calls, out,
          store, ffi, touched, name, info>>

(***************************************************************************)
(* Bounds of the model.                                                    *)
(***************************************************************************)
\* integer scalars are 0..MaxScalar
MaxScalar == 1
\* heap-backed data (text, elements, entries) has at most MaxLen scalars
MaxLen == 1
\* to_ffi is called at most MaxFfi times on one value
MaxFfi == 2

(***************************************************************************)
(* The API level the crate is built for: #[cfg(since_api = "4.3")].        *)
(***************************************************************************)
ApiLevels == {"4.2", "4.3"}

since_api(level) == level = "4.2" \/ api = "4.3"

(***************************************************************************)
(* The macro's entry arms: `ref` selects by_ref, its absence by_val.       *)
(***************************************************************************)
impls(by_ref_or_val, T, from_fn, to_fn, level) ==
    [T |-> T, from_fn |-> from_fn, to_fn |-> to_fn,
     passing |-> by_ref_or_val, level |-> level]

impl_ffi_variant(T, from_fn, to_fn) ==
    impls("by_val", T, from_fn, to_fn, "4.2")

impl_ffi_variant_ref(T, from_fn, to_fn) ==
    impls("by_ref", T, from_fn, to_fn, "4.2")

impl_ffi_variant_ref_since(level, T, from_fn, to_fn) ==
    impls("by_ref", T, from_fn, to_fn, level)

\* mod impls: one macro call per builtin type
Registrations ==
    << impl_ffi_variant("bool", "bool_to_variant", "bool_from_variant"),
       impl_ffi_variant("i64", "int_to_variant", "int_from_variant"),
       impl_ffi_variant("f64", "float_to_variant", "float_from_variant"),
       impl_ffi_variant("Vector2", "vector2_to_variant", "vector2_from_variant"),
       impl_ffi_variant("Vector3", "vector3_to_variant", "vector3_from_variant"),
       impl_ffi_variant("Vector4", "vector4_to_variant", "vector4_from_variant"),
       impl_ffi_variant("Vector2i", "vector2i_to_variant", "vector2i_from_variant"),
       impl_ffi_variant("Vector3i", "vector3i_to_variant", "vector3i_from_variant"),
       impl_ffi_variant("Vector4i", "vector4i_to_variant", "vector4i_from_variant"),
       impl_ffi_variant("Quaternion", "quaternion_to_variant", "quaternion_from_variant"),
       impl_ffi_variant("Transform2D", "transform_2d_to_variant", "transform_2d_from_variant"),
       impl_ffi_variant("Transform3D", "transform_3d_to_variant", "transform_3d_from_variant"),
       impl_ffi_variant("Basis", "basis_to_variant", "basis_from_variant"),
       impl_ffi_variant("Projection", "projection_to_variant", "projection_from_variant"),
       impl_ffi_variant("Plane", "plane_to_variant", "plane_from_variant"),
       impl_ffi_variant("Rect2", "rect2_to_variant", "rect2_from_variant"),
       impl_ffi_variant("Rect2i", "rect2i_to_variant", "rect2i_from_variant"),
       impl_ffi_variant("Aabb", "aabb_to_variant", "aabb_from_variant"),
       impl_ffi_variant("Color", "color_to_variant", "color_from_variant"),
       impl_ffi_variant("Rid", "rid_to_variant", "rid_from_variant"),
       impl_ffi_variant_ref("GString", "string_to_variant", "string_from_variant"),
       impl_ffi_variant_ref("StringName", "string_name_to_variant", "string_name_from_variant"),
       impl_ffi_variant_ref("NodePath", "node_path_to_variant", "node_path_from_variant"),
       impl_ffi_variant_ref("Dictionary", "dictionary_to_variant", "dictionary_from_variant"),
       impl_ffi_variant_ref("PackedByteArray", "packed_byte_array_to_variant", "packed_byte_array_from_variant"),
       impl_ffi_variant_ref("PackedInt32Array", "packed_int32_array_to_variant", "packed_int32_array_from_variant"),
       impl_ffi_variant_ref("PackedInt64Array", "packed_int64_array_to_variant", "packed_int64_array_from_variant"),
       impl_ffi_variant_ref("PackedFloat32Array", "packed_float32_array_to_variant", "packed_float32_array_from_variant"),
       impl_ffi_variant_ref("PackedFloat64Array", "packed_float64_array_to_variant", "packed_float64_array_from_variant"),
       impl_ffi_variant_ref("PackedStringArray", "packed_string_array_to_variant", "packed_string_array_from_variant"),
       impl_ffi_variant_ref("PackedVector2Array", "packed_vector2_array_to_variant", "packed_vector2_array_from_variant"),
       impl_ffi_variant_ref("PackedVector3Array", "packed_vector3_array_to_variant", "packed_vector3_array_from_variant"),
       impl_ffi_variant_ref_since("4.3", "PackedVector4Array", "packed_vector4_array_to_variant", "packed_vector4_array_from_variant"),
       impl_ffi_variant_ref("PackedColorArray", "packed_color_array_to_variant", "packed_color_array_from_variant"),
       impl_ffi_variant_ref("Signal", "signal_to_variant", "signal_from_variant"),
       impl_ffi_variant_ref("Callable", "callable_to_variant", "callable_from_variant") >>

\* the macro calls that the build's cfg keeps
Registered ==
    {Registrations[i].T : i \in {j \in DOMAIN Registrations : since_api(Registrations[j].level)}}

\* a registration that hands i64 the float encoder
ImplIntEncodesAsFloat(T) ==
    LET r == Registrations[CHOOSE i \in DOMAIN Registrations : Registrations[i].T = T]
    IN  IF T = "i64" THEN [r EXCEPT !.from_fn = "float_to_variant"] ELSE r

\* a registration that hands i64 the float decoder
ImplIntDecodesAsFloat(T) ==
    LET r == Registrations[CHOOSE i \in DOMAIN Registrations : Registrations[i].T = T]
    IN  IF T = "i64" THEN [r EXCEPT !.to_fn = "float_from_variant"] ELSE r

\* a registration of GString without `ref`
ImplStringByVal(T) ==
    LET r == Registrations[CHOOSE i \in DOMAIN Registrations : Registrations[i].T = T]
    IN  IF T = "GString" THEN [r EXCEPT !.passing = "by_val"] ELSE r

\* the macro call that implements the traits for T
Impl(T) ==
    Registrations[CHOOSE i \in DOMAIN Registrations : Registrations[i].T = T]

(***************************************************************************)
(* The engine's side: type tags, the data a tag boxes, and the table of    *)
(* conversion functions reached through sys::builtin_fn!.                  *)
(***************************************************************************)
\* the builtin a conversion function pair belongs to, and the tag it boxes
BuiltinTag ==
    [b \in {"bool"} |-> "BOOL"] @@ [b \in {"int"} |-> "INT"] @@
    [b \in {"float"} |-> "FLOAT"] @@ [b \in {"vector2"} |-> "VECTOR2"] @@
    [b \in {"vector3"} |-> "VECTOR3"] @@ [b \in {"vector4"} |-> "VECTOR4"] @@
    [b \in {"vector2i"} |-> "VECTOR2I"] @@ [b \in {"vector3i"} |-> "VECTOR3I"] @@
    [b \in {"vector4i"} |-> "VECTOR4I"] @@ [b \in {"quaternion"} |-> "QUATERNION"] @@
    [b \in {"transform_2d"} |-> "TRANSFORM2D"] @@ [b \in {"transform_3d"} |-> "TRANSFORM3D"] @@
    [b \in {"basis"} |-> "BASIS"] @@ [b \in {"projection"} |-> "PROJECTION"] @@
    [b \in {"plane"} |-> "PLANE"] @@ [b \in {"rect2"} |-> "RECT2"] @@
    [b \in {"rect2i"} |-> "RECT2I"] @@ [b \in {"aabb"} |-> "AABB"] @@
    [b \in {"color"} |-> "COLOR"] @@ [b \in {"rid"} |-> "RID"] @@
    [b \in {"string"} |-> "STRING"] @@ [b \in {"string_name"} |-> "STRING_NAME"] @@
    [b \in {"node_path"} |-> "NODE_PATH"] @@ [b \in {"dictionary"} |-> "DICTIONARY"] @@
    [b \in {"packed_byte_array"} |-> "PACKED_BYTE_ARRAY"] @@
    [b \in {"packed_int32_array"} |-> "PACKED_INT32_ARRAY"] @@
    [b \in {"packed_int64_array"} |-> "PACKED_INT64_ARRAY"] @@
    [b \in {"packed_float32_array"} |-> "PACKED_FLOAT32_ARRAY"] @@
    [b \in {"packed_float64_array"} |-> "PACKED_FLOAT64_ARRAY"] @@
    [b \in {"packed_string_array"} |-> "PACKED_STRING_ARRAY"] @@
    [b \in {"packed_vector2_array"} |-> "PACKED_VECTOR2_ARRAY"] @@
    [b \in {"packed_vector3_array"} |-> "PACKED_VECTOR3_ARRAY"] @@
    [b \in {"packed_vector4_array"} |-> "PACKED_VECTOR4_ARRAY"] @@
    [b \in {"packed_color_array"} |-> "PACKED_COLOR_ARRAY"] @@
    [b \in {"signal"} |-> "SIGNAL"] @@ [b \in {"callable"} |-> "CALLABLE"]

\* Self::VARIANT_TYPE of each Rust type
VARIANT_TYPE ==
    [t \in {"bool"} |-> "BOOL"] @@ [t \in {"i64"} |-> "INT"] @@
    [t \in {"f64"} |-> "FLOAT"] @@ [t \in {"Vector2"} |-> "VECTOR2"] @@
    [t \in {"Vector3"} |-> "VECTOR3"] @@ [t \in {"Vector4"} |-> "VECTOR4"] @@
    [t \in {"Vector2i"} |-> "VECTOR2I"] @@ [t \in {"Vector3i"} |-> "VECTOR3I"] @@
    [t \in {"Vector4i"} |-> "VECTOR4I"] @@ [t \in {"Quaternion"} |-> "QUATERNION"] @@
    [t \in {"Transform2D"} |-> "TRANSFORM2D"] @@ [t \in {"Transform3D"} |-> "TRANSFORM3D"] @@
    [t \in {"Basis"} |-> "BASIS"] @@ [t \in {"Projection"} |-> "PROJECTION"] @@
    [t \in {"Plane"} |-> "PLANE"] @@ [t \in {"Rect2"} |-> "RECT2"] @@
    [t \in {"Rect2i"} |-> "RECT2I"] @@ [t \in {"Aabb"} |-> "AABB"] @@
    [t \in {"Color"} |-> "COLOR"] @@ [t \in {"Rid"} |-> "RID"] @@
    [t \in {"GString"} |-> "STRING"] @@ [t \in {"StringName"} |-> "STRING_NAME"] @@
    [t \in {"NodePath"} |-> "NODE_PATH"] @@ [t \in {"Dictionary"} |-> "DICTIONARY"] @@
    [t \in {"PackedByteArray"} |-> "PACKED_BYTE_ARRAY"] @@
    [t \in {"PackedInt32Array"} |-> "PACKED_INT32_ARRAY"] @@
    [t \in {"PackedInt64Array"} |-> "PACKED_INT64_ARRAY"] @@
    [t \in {"PackedFloat32Array"} |-> "PACKED_FLOAT32_ARRAY"] @@
    [t \in {"PackedFloat64Array"} |-> "PACKED_FLOAT64_ARRAY"] @@
    [t \in {"PackedStringArray"} |-> "PACKED_STRING_ARRAY"] @@
    [t \in {"PackedVector2Array"} |-> "PACKED_VECTOR2_ARRAY"] @@
    [t \in {"PackedVector3Array"} |-> "PACKED_VECTOR3_ARRAY"] @@
    [t \in {"PackedVector4Array"} |-> "PACKED_VECTOR4_ARRAY"] @@
    [t \in {"PackedColorArray"} |-> "PACKED_COLOR_ARRAY"] @@
    [t \in {"Signal"} |-> "SIGNAL"] @@ [t \in {"Callable"} |-> "CALLABLE"] @@
    [t \in {"()"} |-> "NIL"] @@ [t \in {"Variant"} |-> "NIL"]

\* tags that no macro call registers a type for
UntypedTags == {"NIL", "OBJECT", "ARRAY"}

\* the tags of the linked engine
VariantTypes ==
    UntypedTags \cup {VARIANT_TYPE[t] : t \in Registered}

NaN == "NaN"

Ints == {ToString(i) : i \in 0..MaxScalar}

Floats == Ints \cup {NaN}

FloatTags == {"VECTOR2", "VECTOR3", "VECTOR4", "QUATERNION", "TRANSFORM2D",
              "TRANSFORM3D", "BASIS", "PROJECTION", "PLANE", "RECT2", "AABB", "COLOR"}

IntTags == {"VECTOR2I", "VECTOR3I", "VECTOR4I", "RECT2I"}

\* the contents a Variant of a tag can box; aggregates are kept to two lanes
Data(tag) ==
    CASE tag = "NIL" -> {<<>>}
      [] tag = "BOOL" -> {<<"false">>, <<"true">>}
      [] tag \in {"INT", "RID", "OBJECT"} -> {<<i>> : i \in Ints}
      [] tag = "FLOAT" -> {<<f>> : f \in Floats}
      [] tag \in FloatTags -> {<<a, b>> : a \in Floats, b \in Ints}
      [] tag \in IntTags -> {<<a, b>> : a \in Ints, b \in Ints}
      [] OTHER -> UNION {[1..n -> Ints] : n \in 0..MaxLen}

\* what a conversion yields when it has nothing of its own type to read
DefaultData(tag) ==
    CASE tag = "NIL" -> <<>>
      [] tag = "BOOL" -> <<"false">>
      [] tag \in {"INT", "RID", "OBJECT", "FLOAT"} -> <<"0">>
      [] tag \in FloatTags \cup IntTags -> <<"0", "0">>
      [] OTHER -> <<>>

\* every Variant the engine can hand over
Variants == UNION {{[tag |-> t, data |-> d] : d \in Data(t)} : t \in VariantTypes}

\* every value of a Rust type
Values(T) == {[ty |-> T, data |-> d] : d \in Data(VARIANT_TYPE[T])}

\* tags of plain data; every other tag boxes heap-backed data
PlainTags == {"BOOL", "INT", "FLOAT", "RID"} \cup FloatTags \cup IntTags

\* the builtin whose pair of conversion functions fn belongs to
BuiltinOf(fn) ==
    CHOOSE b \in DOMAIN BuiltinTag : fn \in {b \o "_to_variant", b \o "_from_variant"}

\* the tag of the builtin that a conversion function reads or writes
NativeTag ==
    [fn \in UNION {{b \o "_to_variant", b \o "_from_variant"} : b \in DOMAIN BuiltinTag}
        |-> BuiltinTag[BuiltinOf(fn)]]

\* <builtin>_to_variant(variant_ptr, self_ptr): boxes what self_ptr holds, read
\* as the builtin of the function
native_to_variant(fn, self) ==
    LET tag == NativeTag[fn]
    IN  [tag |-> tag,
         data |-> IF VARIANT_TYPE[self.ty] = tag THEN self.data ELSE DefaultData(tag)]

\* <builtin>_from_variant(self_ptr, variant_ptr): writes the builtin of the
\* function, converting what the Variant boxes when its tag is another one
native_from_variant(fn, v) ==
    LET tag == NativeTag[fn]
    IN  IF v.tag = tag THEN v.data ELSE DefaultData(tag)

get_type(v) == v.tag

is_nil(v) == get_type(v) = "NIL"

clone(v) == [tag |-> v.tag, data |-> v.data]

Variant_nil == [tag |-> "NIL", data |-> <<>>]

Ok(value) == [ok |-> TRUE, value |-> value]

BadType(expected, actual) ==
    [kind |-> "BadType", expected |-> expected, actual |-> actual]

\* FromVariantError::into_error(value)
into_error(error, value) == [ok |-> FALSE, error |-> error, value |-> value]

(***************************************************************************)
(* impl GodotFfiVariant for $T                                             *)
(***************************************************************************)
ffi_to_variant(self) ==
    native_to_variant(Impl(self.ty).from_fn, self)

\* a decode that leaves the conversion to the engine, whatever the tag
ffi_from_variant_unchecked(T, v) ==
    [res |-> Ok([ty |-> T, data |-> native_from_variant(Impl(T).to_fn, v)]),
     calls |-> <<"new_with_uninit", Impl(T).to_fn>>,
     variant |-> v]

\* a decode that converts first and checks the tag afterwards
ffi_from_variant_late_check(T, v) ==
    IF get_type(v) # VARIANT_TYPE[T]
    THEN [res |-> into_error(BadType(VARIANT_TYPE[T], get_type(v)), clone(v)),
          calls |-> <<"new_with_uninit", Impl(T).to_fn, "get_type", "get_type", "clone">>,
          variant |-> v]
    ELSE [res |-> Ok([ty |-> T, data |-> native_from_variant(Impl(T).to_fn, v)]),
          calls |-> <<"new_with_uninit", Impl(T).to_fn, "get_type">>,
          variant |-> v]

\* the result, the calls made in their order, and the input as it is left
ffi_from_variant(T, v) ==
    IF get_type(v) # VARIANT_TYPE[T]
    THEN [res |-> into_error(BadType(VARIANT_TYPE[T], get_type(v)), clone(v)),
          calls |-> <<"get_type", "get_type", "clone">>,
          variant |-> v]
    ELSE [res |-> Ok([ty |-> T, data |-> native_from_variant(Impl(T).to_fn, v)]),
          calls |-> <<"get_type", "new_with_uninit", Impl(T).to_fn>>,
          variant |-> v]

(***************************************************************************)
(* impl GodotFfiVariant for ()                                             *)
(***************************************************************************)
unit == [ty |-> "()", data |-> <<>>]

unit_ffi_to_variant(self) == Variant_nil

\* a unit decode that accepts whatever it is given
unit_ffi_from_variant_lenient(v) ==
    [res |-> Ok(unit), calls |-> <<"is_nil">>, variant |-> v]

unit_ffi_from_variant(v) ==
    IF is_nil(v)
    THEN [res |-> Ok(unit), calls |-> <<"is_nil">>, variant |-> v]
    ELSE [res |-> into_error(BadType("NIL", get_type(v)), clone(v)),
          calls |-> <<"is_nil", "get_type", "clone">>,
          variant |-> v]

(***************************************************************************)
(* impl GodotFfiVariant for Variant                                        *)
(***************************************************************************)
Variant_ffi_to_variant(self) == clone(self)

\* a wildcard decode that turns nil away, as a typed slot does
Variant_ffi_from_variant_no_nil(v) ==
    IF is_nil(v)
    THEN [res |-> into_error(BadType("NIL", get_type(v)), clone(v)),
          calls |-> <<"is_nil", "get_type", "clone">>, variant |-> v]
    ELSE [res |-> Ok(clone(v)), calls |-> <<"is_nil", "clone">>, variant |-> v]

Variant_ffi_from_variant(v) ==
    [res |-> Ok(clone(v)), calls |-> <<"clone">>, variant |-> v]

\* the trait's method on a value of a macro type or of ()
FfiToVariant(self) ==
    IF self.ty = "()" THEN unit_ffi_to_variant(self) ELSE ffi_to_variant(self)

FfiFromVariant(T, v) ==
    IF T = "()" THEN unit_ffi_from_variant(v) ELSE ffi_from_variant(T, v)

(***************************************************************************)
(* GodotType::to_ffi. mem is the storage: mem[a] is what address a holds,  *)
(* and self lives at address SelfAddr.                                     *)
(***************************************************************************)
SelfAddr == 1

\* RefArg::new(self)
RefArg_new(addr) == [kind |-> "borrow", addr |-> addr]

\* @assoc_to_ffi by_ref / by_val
to_ffi(T, mem) ==
    IF Impl(T).passing = "by_ref"
    THEN [rep |-> RefArg_new(SelfAddr), mem |-> mem]
    ELSE [rep |-> [kind |-> "owned", addr |-> Len(mem) + 1],
          mem |-> Append(mem, mem[SelfAddr])]

\* <Variant as GodotType>::to_ffi
Variant_to_ffi(mem) == [rep |-> RefArg_new(SelfAddr), mem |-> mem]

(***************************************************************************)
(* GodotType::property_info                                                *)
(***************************************************************************)
PropertyUsageFlags_DEFAULT == {"STORAGE", "EDITOR"}

PropertyUsageFlags_NIL_IS_VARIANT == {"NIL_IS_VARIANT"}

PropertyHintInfo_none == [hint |-> "NONE", hint_string |-> ""]

class_name_none == ""

\* the trait's default, which the macro types keep
property_info(T, property_name) ==
    [variant_type |-> VARIANT_TYPE[T],
     class_name |-> class_name_none,
     property_name |-> property_name,
     hint_info |-> PropertyHintInfo_none,
     usage |-> PropertyUsageFlags_DEFAULT]

\* a wildcard descriptor built like a typed one
Variant_property_info_default_usage(property_name) ==
    property_info("Variant", property_name)

\* <Variant as GodotType>::property_info
Variant_property_info(property_name) ==
    [variant_type |-> VARIANT_TYPE["Variant"],
     class_name |-> class_name_none,
     property_name |-> property_name,
     hint_info |-> PropertyHintInfo_none,
     usage |-> PropertyUsageFlags_DEFAULT \cup PropertyUsageFlags_NIL_IS_VARIANT]

PropertyInfoOf(T, property_name) ==
    IF T = "Variant" THEN Variant_property_info(property_name)
    ELSE property_info(T, property_name)

(***************************************************************************)
(* The caller's state and the calls it makes.                              *)
(*   val      the typed value held (self of the typed calls), or NoValue   *)
(*   variant  the Variant held, or NoVariant                               *)
(*   source   the value `variant` was encoded from, or NoValue             *)
(*   target   the type of the last decode                                  *)
(*   res      the Result of the last decode                                *)
(*   given    the Variant the last decode was given                        *)
(*   calls    what the last decode called, in order                        *)
(*   out      the Variant the last re-encode or wildcard encode returned   *)
(*   store    the storage: store[a] is what address a holds                *)
(*   ffi      the representations to_ffi returned, in order                *)
(*   touched  the representations the caller has changed since             *)
(*   name     the property name the last property_info was given           *)
(*   info     the last PropertyInfo built                                  *)
(***************************************************************************)
NoValue == [ty |-> "", data |-> <<>>]

NoVariant == [tag |-> "", data |-> <<>>]

NoResult == [ok |-> FALSE, error |-> [kind |-> "none"], value |-> NoVariant]

NoInfo == [variant_type |-> "", class_name |-> "", property_name |-> "",
           hint_info |-> PropertyHintInfo_none, usage |-> {}]

PropertyNames == {"health", "speed"}

\* the types that implement GodotFfiVariant with a typed self
TypedTypes == Registered \cup {"()"}

Init ==
    /\ api \in ApiLevels
    /\ op = "start"
    /\ val = NoValue
    /\ variant = NoVariant
    /\ source = NoValue
    /\ target = ""
    /\ res = NoResult
    /\ given = NoVariant
    /\ calls = <<>>
    /\ out = NoVariant
    /\ store = <<>>
    /\ ffi = <<>>
    /\ touched = {}
    /\ name = ""
    /\ info = NoInfo

\* the caller builds a value of a supported type; every call sequence starts
\* afresh, since nothing of an earlier one is kept
Construct ==
    /\ op = "start"
    /\ \E T \in TypedTypes : \E d \in Data(VARIANT_TYPE[T]) :
          /\ val' = [ty |-> T, data |-> d]
          /\ store' = <<d>>
    /\ op' = "construct"
    /\ variant' = NoVariant
    /\ source' = NoValue
    /\ target' = ""
    /\ res' = NoResult
    /\ given' = NoVariant
    /\ calls' = <<>>
    /\ out' = NoVariant
    /\ ffi' = <<>>
    /\ touched' = {}
    /\ name' = ""
    /\ info' = NoInfo
    /\ UNCHANGED api

\* the engine hands the caller a Variant
Receive ==
    /\ op = "start"
    /\ \E v \in Variants :
          /\ variant' = v
          /\ store' = <<v.data>>
    /\ op' = "receive"
    /\ val' = NoValue
    /\ source' = NoValue
    /\ target' = ""
    /\ res' = NoResult
    /\ given' = NoVariant
    /\ calls' = <<>>
    /\ out' = NoVariant
    /\ ffi' = <<>>
    /\ touched' = {}
    /\ name' = ""
    /\ info' = NoInfo
    /\ UNCHANGED api

\* val.ffi_to_variant()
Encode ==
    /\ op = "construct"
    /\ variant' = FfiToVariant(val)
    /\ source' = val
    /\ op' = "ffi_to_variant"
    /\ UNCHANGED <<api, val, target, res, given, calls, out, store, ffi, touched, name, info>>

\* T::ffi_from_variant(&variant)
Decode ==
    /\ op \in {"receive", "ffi_to_variant"}
    /\ \E T \in TypedTypes :
          LET r == FfiFromVariant(T, variant)
          IN  /\ res' = r.res
              /\ calls' = r.calls
              /\ variant' = r.variant
              /\ target' = T
    /\ given' = variant
    /\ op' = "ffi_from_variant"
    /\ UNCHANGED <<api, val, source, out, store, ffi, touched, name, info>>

\* the decoded value is encoded again
ReEncode ==
    /\ op = "ffi_from_variant"
    /\ res.ok
    /\ out' = FfiToVariant(res.value)
    /\ op' = "re_encode"
    /\ UNCHANGED <<api, val, variant, source, target, res, given, calls, store, ffi, touched, name, info>>

\* variant.ffi_to_variant(), self being a Variant
WildcardEncode ==
    /\ op = "receive"
    /\ out' = Variant_ffi_to_variant(variant)
    /\ op' = "Variant::ffi_to_variant"
    /\ UNCHANGED <<api, val, variant, source, target, res, given, calls, store, ffi, touched, name, info>>

\* Variant::ffi_from_variant, of what the engine gave or of what was just encoded
WildcardDecode ==
    /\ op \in {"receive", "Variant::ffi_to_variant"}
    /\ LET v == IF op = "receive" THEN variant ELSE out
           r == Variant_ffi_from_variant(v)
       IN  /\ res' = r.res
           /\ calls' = r.calls
           /\ given' = v
    /\ target' = "Variant"
    /\ op' = "Variant::ffi_from_variant"
    /\ UNCHANGED <<api, val, variant, source, out, store, ffi, touched, name, info>>

\* val.to_ffi(), or variant.to_ffi()
ToFfi ==
    /\ op \in {"construct", "receive", "to_ffi", "change"}
    /\ val # unit
    /\ Len(ffi) < MaxFfi
    /\ LET r == IF val # NoValue THEN to_ffi(val.ty, store) ELSE Variant_to_ffi(store)
       IN  /\ ffi' = Append(ffi, r.rep)
           /\ store' = r.mem
    /\ op' = "to_ffi"
    /\ UNCHANGED <<api, val, variant, source, target, res, given, calls, out, touched, name, info>>

\* the caller changes a representation it owns
Change ==
    /\ op \in {"to_ffi", "change"}
    /\ \E i \in DOMAIN ffi :
          /\ i \notin touched
          /\ ffi[i].kind = "owned"
          /\ \E d \in Data(VARIANT_TYPE[val.ty]) \ {store[ffi[i].addr]} :
                store' = [store EXCEPT ![ffi[i].addr] = d]
          /\ touched' = touched \cup {i}
    /\ op' = "change"
    /\ UNCHANGED <<api, val, variant, source, target, res, given, calls, out, ffi, name, info>>

\* T::property_info(property_name)
PropertyInfo ==
    /\ op = "start"
    /\ \E T \in Registered \cup {"Variant"} : \E property_name \in PropertyNames :
          /\ info' = PropertyInfoOf(T, property_name)
          /\ name' = property_name
          /\ target' = T
    /\ op' = "property_info"
    /\ val' = NoValue
    /\ variant' = NoVariant
    /\ source' = NoValue
    /\ res' = NoResult
    /\ given' = NoVariant
    /\ calls' = <<>>
    /\ out' = NoVariant
    /\ store' = <<>>
    /\ ffi' = <<>>
    /\ touched' = {}
    /\ UNCHANGED api

Next ==
    \/ Construct
    \/ Receive
    \/ Encode
    \/ Decode
    \/ ReEncode
    \/ WildcardEncode
    \/ WildcardDecode
    \/ ToFfi
    \/ Change
    \/ PropertyInfo

Spec == Init /\ [][Next]_vars

(***************************************************************************)
(* The engine revisions of the macro's header comment. In 4.0 the engine   *)
(* returns through `*ptr = value`, and a type whose operator= reads the    *)
(* destination needs the pointer initialized; from 4.1 on the engine       *)
(* writes into raw memory and an initialized destination would leak.       *)
(***************************************************************************)
AbiRevisions == {"4.0", "4.1"}

\* the types whose assignment reads its destination: the heap-backed ones
RequiresInit(revision, T) ==
    /\ revision = "4.0"
    /\ VARIANT_TYPE[T] \notin PlainTags

\* how the destination of the last conversion was made
Discipline ==
    IF \E i \in DOMAIN calls : calls[i] = "new_with_init" THEN "init"
    ELSE IF \E i \in DOMAIN calls : calls[i] = "new_with_uninit" THEN "uninit"
    ELSE "none"

\* what an assignment that reads a raw destination may leave behind
Undefined(T) ==
    {Ok(v) : v \in Values(T)}
        \cup {[ok |-> FALSE, error |-> [kind |-> "crash"], value |-> NoVariant]}

InitAbi ==
    /\ api \in AbiRevisions
    /\ op = "start"
    /\ val = NoValue
    /\ variant = NoVariant
    /\ source = NoValue
    /\ target = ""
    /\ res = NoResult
    /\ given = NoVariant
    /\ calls = <<>>
    /\ out = NoVariant
    /\ store = <<>>
    /\ ffi = <<>>
    /\ touched = {}
    /\ name = ""
    /\ info = NoInfo

\* T::ffi_from_variant(&variant) against the linked revision
DecodeLinked ==
    /\ op \in {"receive", "ffi_to_variant"}
    /\ \E T \in TypedTypes :
          LET r == FfiFromVariant(T, variant)
              raw == \E i \in DOMAIN r.calls : r.calls[i] = "new_with_uninit"
          IN  /\ IF r.res.ok /\ raw /\ RequiresInit(api, T)
                 THEN res' \in Undefined(T)
                 ELSE res' = r.res
              /\ calls' = r.calls
              /\ variant' = r.variant
              /\ target' = T
    /\ given' = variant
    /\ op' = "ffi_from_variant"
    /\ UNCHANGED <<api, val, source, out, store, ffi, touched, name, info>>

NextAbi ==
    \/ Construct
    \/ Receive
    \/ Encode
    \/ DecodeLinked

SpecAbi == InitAbi /\ [][NextAbi]_vars

(***************************************************************************)
(* Properties.                                                             *)
(***************************************************************************)
\* equality of two values of a type: field by field, IEEE 754 on the floats,
\* so that NaN equals nothing
PartialEq(a, b) ==
    /\ a.ty = b.ty
    /\ Len(a.data) = Len(b.data)
    /\ \A i \in DOMAIN a.data : a.data[i] # NaN /\ a.data[i] = b.data[i]

HasNaN(a) == \E i \in DOMAIN a.data : a.data[i] = NaN

\* a decode of the Variant that a value of a macro type was encoded to, as
\* that type
RoundTripDone ==
    /\ op = "ffi_from_variant"
    /\ source # NoValue
    /\ source.ty \in Registered
    /\ target = source.ty

\* C1 as stated: for every registered type T and every value v of T,
\* ffi_from_variant(ffi_to_variant(v)) is Ok and its value equals v under T's
\* equality.
C1_RoundTripEqualUnderEq ==
    RoundTripDone => res.ok /\ PartialEq(res.value, source)

\* C1 as amended: the round trip is Ok and returns the content of v unchanged;
\* the result equals v under T's equality whenever v has no NaN component.
C1_RoundTripSameContent ==
    RoundTripDone =>
        /\ res.ok
        /\ res.value = source
        /\ ~HasNaN(source) => PartialEq(res.value, source)

C1_Witness ==
    /\ RoundTripDone
    /\ source.ty = "Vector2"
    /\ res.ok
    /\ PartialEq(res.value, source)

\* C2: a decode as a registered type T of a Variant whose tag is not T's fails
\* with BadType, expected T's tag, actual the Variant's tag, and carries a copy
\* of the Variant; no mismatch decodes to Ok.
C2_StrictTagRejection ==
    (op = "ffi_from_variant" /\ target \in Registered /\ given.tag # VARIANT_TYPE[target]) =>
        /\ ~res.ok
        /\ res.error.kind = "BadType"
        /\ res.error.expected = VARIANT_TYPE[target]
        /\ res.error.actual = given.tag
        /\ res.value = given

C2_Witness ==
    /\ op = "ffi_from_variant"
    /\ target = "i64"
    /\ given.tag = "FLOAT"
    /\ ~res.ok
    /\ res.error = [kind |-> "BadType", expected |-> "INT", actual |-> "FLOAT"]

\* C3: encoding a value of a registered type T always returns a Variant, one
\* of the engine's, whose tag is T's tag.
C3_EncodeTagCorrect ==
    (op = "ffi_to_variant" /\ source.ty \in Registered) =>
        /\ variant.tag = VARIANT_TYPE[source.ty]
        /\ variant \in Variants

C3_Witness ==
    /\ op = "ffi_to_variant"
    /\ source.ty = "Callable"
    /\ variant.tag = "CALLABLE"

\* C4: encoding () gives a NIL Variant; a decode as () is Ok exactly when the
\* Variant is nil, and otherwise fails with BadType, expected NIL, actual the
\* Variant's tag.
C4_NilContract ==
    /\ (op = "ffi_to_variant" /\ source = unit) => variant.tag = "NIL"
    /\ (op = "ffi_from_variant" /\ target = "()") =>
          /\ res.ok <=> given.tag = "NIL"
          /\ res.ok => res.value = unit
          /\ ~res.ok =>
                /\ res.error.kind = "BadType"
                /\ res.error.expected = "NIL"
                /\ res.error.actual = given.tag

C4_Witness ==
    /\ op = "ffi_from_variant"
    /\ target = "()"
    /\ given.tag = "DICTIONARY"
    /\ ~res.ok
    /\ res.error.actual = "DICTIONARY"

\* C5: the wildcard encode of a Variant equals it, the wildcard decode of any
\* Variant is Ok and equals it, and so decode(encode(v)) equals v, NIL included.
C5_WildcardContract ==
    /\ op = "Variant::ffi_to_variant" => out = variant
    /\ op = "Variant::ffi_from_variant" =>
          /\ res.ok
          /\ res.value = given
          /\ out # NoVariant => res.value = variant

C5_Witness ==
    /\ op = "Variant::ffi_from_variant"
    /\ out # NoVariant
    /\ variant.tag = "NIL"
    /\ res.ok
    /\ res.value = variant

\* C6: a Variant decoded as the registered type of its tag and encoded again
\* gives a Variant of the same tag and content.
C6_ReEncodeSame ==
    (op = "re_encode" /\ target \in Registered) => out = given /\ given = variant

C6_Witness ==
    /\ op = "re_encode"
    /\ source = NoValue
    /\ target = "GString"
    /\ out = variant

\* the type to_ffi was called on is one of plain data
OnPlainData == val # NoValue /\ VARIANT_TYPE[val.ty] \in PlainTags

\* C7: to_ffi of a plain-data type returns copies: each at an address of its
\* own, none at self's, and a change of one leaves self and the other copies
\* as they were; to_ffi of a heap-backed type, and of Variant, returns a
\* borrow of self and makes no new storage.
C7_CopyOrBorrow ==
    op \in {"to_ffi", "change"} =>
        IF OnPlainData
        THEN /\ store[SelfAddr] = val.data
             /\ \A i \in DOMAIN ffi :
                   /\ ffi[i].kind = "owned"
                   /\ ffi[i].addr # SelfAddr
                   /\ \A j \in DOMAIN ffi : j # i => ffi[j].addr # ffi[i].addr
                   /\ i \notin touched => store[ffi[i].addr] = val.data
        ELSE /\ Len(store) = 1
             /\ \A i \in DOMAIN ffi : ffi[i] = [kind |-> "borrow", addr |-> SelfAddr]

C7_Witness ==
    /\ op = "change"
    /\ val.ty = "Color"
    /\ Len(ffi) = MaxFfi
    /\ touched = {1}
    /\ store[ffi[1].addr] # val.data
    /\ store[SelfAddr] = val.data

\* C8: the descriptor of the wildcard type holds Variant's tag, the name given,
\* no hint, and the usage DEFAULT with NIL_IS_VARIANT; the descriptor of no
\* other type has NIL_IS_VARIANT.
C8_PropertyInfoFlags ==
    op = "property_info" =>
        IF target = "Variant"
        THEN /\ info.variant_type = "NIL"
             /\ info.property_name = name
             /\ info.hint_info = [hint |-> "NONE", hint_string |-> ""]
             /\ info.usage = {"STORAGE", "EDITOR", "NIL_IS_VARIANT"}
        ELSE "NIL_IS_VARIANT" \notin info.usage

C8_Witness ==
    /\ op = "property_info"
    /\ target = "Variant"
    /\ name = "health"
    /\ "NIL_IS_VARIANT" \in info.usage

\* C9: whenever a decode as a registered type reaches the engine's
\* from_variant, the destination was made the way the linked revision needs
\* it for that type: initialized where the revision requires it, raw where
\* it does not.
C9_DisciplineFollowsRevision ==
    (op = "ffi_from_variant" /\ target \in Registered /\ Discipline # "none") =>
        Discipline = IF RequiresInit(api, target) THEN "init" ELSE "uninit"

\* the places in `calls` where a conversion function of the engine is called
NativeCalls == {i \in DOMAIN calls : calls[i] \in DOMAIN NativeTag}

\* C10: a decode as a registered type checks the tag before any conversion;
\* it calls the engine's from_variant once when the tags match and never when
\* they differ; a failed decode makes no destination buffer and returns no
\* value of the type; and the Variant given is left as it was.
C10_DecodeOrderAndAtomicity ==
    (op = "ffi_from_variant" /\ target \in Registered) =>
        /\ calls[1] = "get_type"
        /\ variant = given
        /\ IF given.tag = VARIANT_TYPE[target]
           THEN /\ Cardinality(NativeCalls) = 1
                /\ \A i \in NativeCalls : calls[i] = Impl(target).to_fn
                /\ res.ok
                /\ res.value \in Values(target)
           ELSE /\ NativeCalls = {}
                /\ \A i \in DOMAIN calls : calls[i] # "new_with_uninit"
                /\ ~res.ok
                /\ res.value = given

C10_Witness ==
    /\ op = "ffi_from_variant"
    /\ target = "GString"
    /\ given.tag = "INT"
    /\ calls = <<"get_type", "get_type", "clone">>
    /\ variant = given

====
